---- MODULE Spec2Model ----
(***************************************************************************)
(* A model of the orchestration core of the HN GitHub Agents service:      *)
(*   - AgentManager (app/services/agent_manager.py): lifecycle, the        *)
(*     request-level operations and A2A message delivery;                  *)
(*   - the application lifespan and the request boundary                   *)
(*     (app/main.py, app/dependencies.py, app/routers/*.py);               *)
(*   - SpecialistAgent (app/agents/specialist_agent.py): the repository    *)
(*     pipeline, the delegation handler, health_check, _extract_content;   *)
(*   - health collection (AgentManager.health_check, GET /health);         *)
(*   - the tools AgentFactory registers (app/agents/factory.py).           *)
(*                                                                         *)
(* Python strings whose content matters are sequences of one-character     *)
(* strings; mappings (dict) are functions from keys to values; None is the *)
(* string "None".  An await is a step boundary: the code between two       *)
(* awaits of one coroutine is one atomic action.                           *)
(***************************************************************************)
EXTENDS Integers, Sequences, FiniteSets, TLC

(***************************************************************************)
(* Bounds of the model (not program constants).                            *)
(***************************************************************************)
\* longest repository list of a request that passes through the manager
MaxMgrListLen == 1
\* longest repository list handed to SpecialistAgent.process_request directly
MaxListLen == 11
\* longest text enclosed by the wrapper markers in an _extract_content input
MaxBodyLen == 3

(***************************************************************************)
(* Program constants.                                                      *)
(***************************************************************************)
\* request.repositories[:10]
RepoLimit == 10

(***************************************************************************)
(* Python string and mapping helpers.                                      *)
(***************************************************************************)
Min(a, b) == IF a <= b THEN a ELSE b

\* sub in s   (Python substring test on strings)
Contains(s, sub) ==
    \E i \in 1..(Len(s) - Len(sub) + 1) : SubSeq(s, i, i + Len(sub) - 1) = sub

\* s.find(sub), 1-based; 0 when absent (Python: -1)
Find(s, sub) ==
    IF Contains(s, sub)
    THEN CHOOSE i \in 1..(Len(s) - Len(sub) + 1) :
            /\ SubSeq(s, i, i + Len(sub) - 1) = sub
            /\ \A j \in 1..(i - 1) : SubSeq(s, j, j + Len(sub) - 1) # sub
    ELSE 0

\* s.split("/", 1): the text before the first "/" and the text after it
SplitOnce(s) ==
    LET i == Find(s, <<"/">>)
    IN  <<SubSeq(s, 1, i - 1), SubSeq(s, i + 1, Len(s))>>

\* number of "/" separators of s
Separators(s) == Cardinality({i \in 1..Len(s) : s[i] = "/"})

\* m.get(k, d)
Get(m, k, d) == IF k \in DOMAIN m THEN m[k] ELSE d

\* Python truthiness of an optional object reference
Truthy(ref) == ref # "None"

\* the empty dict
EmptyDict == [k \in {} |-> "None"]

\* values of type Any inside a payload carry their Python type
Dict(m) == [t |-> "dict", v |-> m]
List(l) == [t |-> "list", v |-> l]
Str(s)  == [t |-> "str", v |-> s]

(***************************************************************************)
(* State.                                                                  *)
(***************************************************************************)
VARIABLES
    \* AgentManager fields (agent_manager.py 28-34)
    initialized, entry_agent, specialist_agent, a2a_service, mcp_manager,
    \* the collaborators' own state: is the registry connected, is the
    \* messaging server running
    mcp_connected, a2a_running,
    \* lifespan (main.py 31-53): position, and how initialize / shutdown ended
    lc_pc, init_result, shutdown_result,
    \* history: sub-steps of initialize that succeeded, the sub-step that
    \* faulted in initialize / shutdown
    init_steps, init_fault, shutdown_fault,
    \* one request in flight: position, operation, caller, inputs, outcome
    rq,
    \* SpecialistAgent.process_request in progress: inputs, loop state, history
    sp,
    \* one tool invocation (factory.py): registry contents, call, result
    tl,
    \* SpecialistAgent.mcp_manager of the manager's specialist agent
    \* (specialist_agent.py 24), "None" while that agent does not exist
    sa_mcp,
    \* one application of SpecialistAgent._extract_content: input, output
    ex

mgr_vars == <<initialized, entry_agent, specialist_agent, a2a_service,
              mcp_manager, mcp_connected, a2a_running, sa_mcp>>
lc_vars == <<lc_pc, init_result, shutdown_result, init_steps, init_fault,
             shutdown_fault>>
vars == <<initialized, entry_agent, specialist_agent, a2a_service,
          mcp_manager, mcp_connected, a2a_running, lc_pc, init_result,
          shutdown_result, init_steps, init_fault, shutdown_fault, rq, sp, tl,
          sa_mcp, ex>>

(***************************************************************************)
(* Inputs.                                                                 *)
(***************************************************************************)
\* repository identifiers: well-formed, no separator, two separators
RepoAB == <<"a", "/", "b">>
RepoCD == <<"c", "/", "d">>
RepoBad == <<"b", "a", "d">>
RepoABC == <<"a", "/", "b", "/", "c">>
RepoIds == <<RepoAB, RepoBad, RepoABC, RepoCD>>

\* the list of n identifiers that cycles through RepoIds from offset r
CyclicList(n, r) == [i \in 1..n |-> RepoIds[((i + r - 1) % Len(RepoIds)) + 1]]

\* the list of n well-formed identifiers
UniformList(n) == [i \in 1..n |-> RepoAB]

\* every list of at most n identifiers
RECURSIVE ListsUpTo(_)
ListsUpTo(n) ==
    IF n = 0 THEN {<<>>}
    ELSE LET shorter == ListsUpTo(n - 1)
         IN  shorter \cup {Append(l, RepoIds[k]) :
                              l \in {s \in shorter : Len(s) = n - 1},
                              k \in 1..Len(RepoIds)}

\* repository lists of requests that pass through the manager
MgrRepoLists == ListsUpTo(MaxMgrListLen) \cup {<<RepoAB, RepoBad>>}
\* repository lists handed to the specialist agent directly
AgentRepoLists ==
    ListsUpTo(2) \cup {CyclicList(n, r) : n \in 3..MaxListLen, r \in 0..3}
        \cup {UniformList(MaxListLen)}

(***************************************************************************)
(* Init: the state after `agent_manager = AgentManager()` (main.py 26,     *)
(* agent_manager.py 28-34), before the lifespan has started.               *)
(***************************************************************************)
RqIdle ==
    [pc |-> "idle", op |-> "none", origin |-> "none",
     recipient |-> "none", message_type |-> "none", payload |-> EmptyDict,
     correlation_id |-> "None", repositories |-> <<>>, auto_detect |-> FALSE,
     arrived_at |-> "none", admitted_at |-> "none", called |-> FALSE,
     init_at_call |-> FALSE,
     outcome |-> "none", http |-> 0, entry_calls |-> 0, specialist_calls |-> 0,
     classification |-> "none", route |-> "none", handler_ran |-> FALSE,
     trends_ok |-> FALSE, health_fault |-> "none", probe |-> 0,
     mcp_ref |-> "None", called_at |-> "none",
     result |-> EmptyDict, response |-> EmptyDict]

SpIdle ==
    [pc |-> "idle", caller |-> "none", repositories |-> <<>>, i |-> 1,
     repo_data |-> <<>>, attempted |-> <<>>, lookups |-> <<>>,
     resolved |-> <<>>, faults |-> {}, summary_calls |-> 0,
     summary_fault |-> FALSE, response |-> EmptyDict]

TlIdle ==
    [pc |-> "idle", clients |-> {}, tool |-> "none", args |-> EmptyDict,
     calls |-> <<>>, fault |-> FALSE, raised |-> FALSE, result |-> EmptyDict]

ExIdle == [pc |-> "idle", input |-> <<>>, output |-> <<>>]

ManagerInit ==
    /\ initialized = FALSE
    /\ entry_agent = "None"
    /\ specialist_agent = "None"
    /\ a2a_service = "None"
    /\ mcp_manager = "None"
    /\ mcp_connected = FALSE
    /\ a2a_running = FALSE
    /\ lc_pc = "startup"
    /\ init_result = "none"
    /\ shutdown_result = "none"
    /\ init_steps = {}
    /\ init_fault = "none"
    /\ shutdown_fault = "none"
    /\ sa_mcp = "None"

Init ==
    /\ ManagerInit
    /\ rq = RqIdle
    /\ sp = SpIdle
    /\ tl = TlIdle
    /\ ex = ExIdle

(***************************************************************************)
(* AgentManager.initialize (agent_manager.py 36-71), called by lifespan    *)
(* (main.py 31-44).  Every fault goes through `except Exception: raise`,   *)
(* and lifespan re-raises it: the application does not start.              *)
(***************************************************************************)
AllInitSteps ==
    {"connect", "entry_agent", "specialist_agent", "a2a_service",
     "start_server", "register_entry", "register_specialist"}

\* InitializedOnExit with line 67 moved to the top of the try block
InitializedOnExit_Early(ok, cur) == TRUE

\* the value of self.initialized when initialize ends: line 67 is reached
\* only when no sub-step raised; the except branch leaves the field alone
InitializedOnExit(ok, cur) == IF ok THEN TRUE ELSE cur

\* lines 69-71 and main.py 42-44: the fault is logged and re-raised
InitializeRaise(step) ==
    /\ init_fault' = step
    /\ init_result' = "raised"
    /\ lc_pc' = "startup_failed"

\* lines 38-41: a fresh registry is created and its connect is awaited
InitializeBegin ==
    /\ lc_pc = "startup"
    /\ mcp_manager' = "MCPClientManager"
    /\ lc_pc' = "init_aenter"
    /\ UNCHANGED <<initialized, entry_agent, specialist_agent, a2a_service,
                   mcp_connected, a2a_running, init_result, shutdown_result,
                   init_steps, init_fault, shutdown_fault,
                   rq, sp, tl, sa_mcp, ex>>

\* lines 41-58: __aenter__ returns or raises; then both agents and the
\* messaging service are constructed and start_server is awaited.
\* fault names the first sub-step that raises, "none" when none does.
InitializeConnected(fault) ==
    /\ lc_pc = "init_aenter"
    /\ mcp_connected' = (fault # "connect")
    /\ entry_agent' =
          IF fault \in {"connect", "entry_agent"} THEN entry_agent
          ELSE "EntryAgent"
    /\ specialist_agent' =
          IF fault \in {"connect", "entry_agent", "specialist_agent"}
          THEN specialist_agent ELSE "SpecialistAgent"
    /\ sa_mcp' =
          IF fault \in {"connect", "entry_agent", "specialist_agent"}
          THEN sa_mcp ELSE mcp_manager
    /\ a2a_service' = IF fault = "none" THEN "A2AService" ELSE a2a_service
    /\ init_steps' = init_steps \cup
          CASE fault = "connect" -> {}
            [] fault = "entry_agent" -> {"connect"}
            [] fault = "specialist_agent" -> {"connect", "entry_agent"}
            [] fault = "a2a_service" ->
                  {"connect", "entry_agent", "specialist_agent"}
            [] OTHER -> {"connect", "entry_agent", "specialist_agent",
                         "a2a_service"}
    /\ IF fault = "none"
       THEN /\ lc_pc' = "init_start_server"
            /\ UNCHANGED <<init_fault, init_result>>
       ELSE InitializeRaise(fault)
    /\ initialized' = InitializedOnExit(FALSE, initialized)
    /\ UNCHANGED <<mcp_manager, a2a_running, shutdown_result, shutdown_fault,
                   rq, sp, tl, ex>>

\* lines 58-62: start_server returns or raises; `if self.a2a_service`
InitializeServerStarted(ok) ==
    /\ lc_pc = "init_start_server"
    /\ a2a_running' = ok
    /\ IF ~ok
       THEN /\ InitializeRaise("start_server")
            /\ initialized' = InitializedOnExit(FALSE, initialized)
            /\ UNCHANGED init_steps
       ELSE /\ init_steps' = init_steps \cup {"start_server"}
            /\ UNCHANGED init_fault
            /\ IF Truthy(a2a_service)
               THEN /\ lc_pc' = "init_register_entry"
                    /\ UNCHANGED <<initialized, init_result>>
               ELSE /\ initialized' = InitializedOnExit(TRUE, initialized)
                    /\ init_result' = "returned"
                    /\ lc_pc' = "serving"
    /\ UNCHANGED <<entry_agent, specialist_agent, a2a_service, mcp_manager,
                   mcp_connected, shutdown_result, shutdown_fault,
                   rq, sp, tl, sa_mcp, ex>>

\* lines 60-65: register_agent("entry_agent", ...) returns or raises
InitializeEntryRegistered(ok) ==
    /\ lc_pc = "init_register_entry"
    /\ IF ok
       THEN /\ init_steps' = init_steps \cup {"register_entry"}
            /\ lc_pc' = "init_register_specialist"
            /\ UNCHANGED <<init_fault, init_result>>
       ELSE /\ InitializeRaise("register_entry")
            /\ UNCHANGED init_steps
    /\ initialized' = InitializedOnExit(FALSE, initialized)
    /\ UNCHANGED <<entry_agent, specialist_agent, a2a_service, mcp_manager,
                   mcp_connected, a2a_running, shutdown_result,
                   shutdown_fault, rq, sp, tl, sa_mcp, ex>>

\* lines 63-68 and main.py 33-40: register_agent("specialist_agent", ...)
\* returns or raises; on success initialized is set and lifespan yields
InitializeSpecialistRegistered(ok) ==
    /\ lc_pc = "init_register_specialist"
    /\ IF ok
       THEN /\ init_steps' = init_steps \cup {"register_specialist"}
            /\ init_result' = "returned"
            /\ lc_pc' = "serving"
            /\ UNCHANGED init_fault
       ELSE /\ InitializeRaise("register_specialist")
            /\ UNCHANGED init_steps
    /\ initialized' = InitializedOnExit(ok, initialized)
    /\ UNCHANGED <<entry_agent, specialist_agent, a2a_service, mcp_manager,
                   mcp_connected, a2a_running, shutdown_result,
                   shutdown_fault, rq, sp, tl, sa_mcp, ex>>

(***************************************************************************)
(* AgentManager.shutdown (agent_manager.py 85-96), called by lifespan      *)
(* after the yield (main.py 46-53).                                        *)
(***************************************************************************)
\* lines 95-96: the except branch logs the fault and falls off the end of
\* the function, so the call returns normally
ShutdownExcept == "returned"

\* line 93, reached only when no awaited step raised
ShutdownFinish ==
    /\ initialized' = FALSE
    /\ shutdown_result' = "returned"
    /\ lc_pc' = "exited"

\* lines 87-92 up to the first await
ShutdownBegin ==
    /\ lc_pc = "serving"
    /\ IF Truthy(a2a_service)
       THEN /\ lc_pc' = "shutdown_stop_server"
            /\ UNCHANGED <<initialized, shutdown_result>>
       ELSE IF Truthy(mcp_manager)
       THEN /\ lc_pc' = "shutdown_aexit"
            /\ UNCHANGED <<initialized, shutdown_result>>
       ELSE ShutdownFinish
    /\ UNCHANGED <<entry_agent, specialist_agent, a2a_service, mcp_manager,
                   mcp_connected, a2a_running, init_result, init_steps,
                   init_fault, shutdown_fault, rq, sp, tl, sa_mcp, ex>>

\* lines 90-92: stop_server returns or raises
ShutdownServerStopped(ok) ==
    /\ lc_pc = "shutdown_stop_server"
    /\ IF ~ok
       THEN /\ shutdown_fault' = "stop_server"
            /\ shutdown_result' = ShutdownExcept
            /\ lc_pc' = "exited"
            /\ UNCHANGED <<initialized, a2a_running>>
       ELSE /\ a2a_running' = FALSE
            /\ UNCHANGED shutdown_fault
            /\ IF Truthy(mcp_manager)
               THEN /\ lc_pc' = "shutdown_aexit"
                    /\ UNCHANGED <<initialized, shutdown_result>>
               ELSE ShutdownFinish
    /\ UNCHANGED <<entry_agent, specialist_agent, a2a_service, mcp_manager,
                   mcp_connected, init_result, init_steps, init_fault,
                   rq, sp, tl, sa_mcp, ex>>

\* lines 92-96: __aexit__ returns or raises
ShutdownRegistryClosed(ok) ==
    /\ lc_pc = "shutdown_aexit"
    /\ IF ~ok
       THEN /\ shutdown_fault' = "aexit"
            /\ shutdown_result' = ShutdownExcept
            /\ lc_pc' = "exited"
            /\ UNCHANGED <<initialized, mcp_connected>>
       ELSE /\ mcp_connected' = FALSE
            /\ ShutdownFinish
            /\ UNCHANGED shutdown_fault
    /\ UNCHANGED <<entry_agent, specialist_agent, a2a_service, mcp_manager,
                   a2a_running, init_result, init_steps, init_fault,
                   rq, sp, tl, sa_mcp, ex>>

(***************************************************************************)
(* SpecialistAgent (specialist_agent.py).                                  *)
(***************************************************************************)
\* line 44
NoReposInsights == "No repositories could be analyzed."
\* line 65: f"An error occurred: {e}"
ErrorInsights == "An error occurred: e"
\* the text _extract_content returns for the model's analysis (line 51)
ModelInsights == "analysis"

\* Considered without the [:10] slice
Considered_Unbounded(repositories) == repositories

\* line 37: request.repositories[:10]
Considered(repositories) ==
    SubSeq(repositories, 1, Min(Len(repositories), RepoLimit))

\* lines 86-109: the record built for repo_name (fields copied from the
\* lookup's details are left out)
GitHubRepository(repo_name) ==
    LET parts == SplitOnce(repo_name)
    IN  [name |-> parts[2], full_name |-> repo_name, owner |-> parts[1]]

\* ItemFaultCaught when the lookup is awaited outside the try block
ItemFaultCaught_LookupOutside(outcome) == outcome # "raise"

\* lines 110-112: `except Exception` around the whole body of
\* _analyze_repository catches the fault of any per-item step
ItemFaultCaught(outcome) == TRUE

\* lines 68-112: _analyze_repository(repo_name, include_metrics).
\* outcome is what the environment does with the lookup: "ok" (details
\* returned and the record built), "raise" (agent.run raises), "empty"
\* (details_result.data is falsy), "construct" (building the record raises).
\* lookup: was agent.run called; value: <<record>> or <<>> for None;
\* raised: did a fault escape the function.
AnalyzeRepository(repo_name, outcome) ==
    IF ~Contains(repo_name, <<"/">>)
    THEN [lookup |-> FALSE, value |-> <<>>, fault |-> "invalid_format",
          raised |-> FALSE]
    ELSE IF outcome = "ok"
    THEN [lookup |-> TRUE, value |-> <<GitHubRepository(repo_name)>>,
          fault |-> "none", raised |-> FALSE]
    ELSE [lookup |-> TRUE, value |-> <<>>, fault |-> outcome,
          raised |-> outcome # "empty" /\ ~ItemFaultCaught(outcome)]

LookupOutcomes == {"ok", "raise", "empty", "construct"}

\* lines 53-58
RepoIntelResponse(repo_data, insights) ==
    [repositories |-> repo_data, total_repos |-> Len(repo_data),
     analysis_timestamp |-> "utcnow", insights |-> insights]

\* lines 59-66
ErrorResponse == RepoIntelResponse(<<>>, ErrorInsights)

\* RequestFault without the except branch of lines 59-66: the fault leaves
\* process_request
RequestFault_Uncaught == [pc |-> "raised", response |-> EmptyDict]

\* lines 36, 59-66: a fault anywhere in the try block ends process_request
\* by returning the error response
RequestFault == [pc |-> "returned", response |-> ErrorResponse]

\* lines 27-36: process_request(request) is entered; nothing is awaited yet
ProcessRequestStart(caller, repositories) ==
    [SpIdle EXCEPT !.pc = "loop", !.caller = caller,
                   !.repositories = repositories]

\* lines 37-42: one iteration of the loop
AnalyzeNext(outcome) ==
    /\ sp.pc = "loop"
    /\ sp.i <= Len(Considered(sp.repositories))
    /\ LET repo_name == Considered(sp.repositories)[sp.i]
           r == AnalyzeRepository(repo_name, outcome)
       IN  sp' = [sp EXCEPT
                    !.i = sp.i + 1,
                    !.attempted = Append(sp.attempted, repo_name),
                    !.lookups = IF r.lookup
                                THEN Append(sp.lookups, SplitOnce(repo_name))
                                ELSE sp.lookups,
                    !.resolved = IF r.lookup /\ outcome = "ok"
                                 THEN Append(sp.resolved, repo_name)
                                 ELSE sp.resolved,
                    !.faults = IF r.fault = "none" THEN sp.faults
                               ELSE sp.faults \cup {r.fault},
                    !.repo_data = sp.repo_data \o r.value,
                    !.pc = IF r.raised THEN RequestFault.pc ELSE "loop",
                    !.response = IF r.raised THEN RequestFault.response
                                 ELSE sp.response]
    /\ UNCHANGED <<mgr_vars, lc_vars, rq, tl, ex>>

\* NeedsSummary without the test of line 45
NeedsSummary_Always(repo_data) == TRUE

\* line 45: `if repo_data:`
NeedsSummary(repo_data) == repo_data # <<>>

\* lines 44-66: after the loop; the summarising model call is made only
\* when some record was collected, and its fault is caught at line 59
Summarise(ok) ==
    /\ sp.pc = "loop"
    /\ sp.i > Len(Considered(sp.repositories))
    /\ sp' = [sp EXCEPT
                !.pc = IF NeedsSummary(sp.repo_data) /\ ~ok
                       THEN RequestFault.pc
                       ELSE "returned",
                !.summary_calls = IF NeedsSummary(sp.repo_data)
                                  THEN sp.summary_calls + 1
                                  ELSE sp.summary_calls,
                !.summary_fault = NeedsSummary(sp.repo_data) /\ ~ok,
                !.response =
                    IF ~NeedsSummary(sp.repo_data)
                    THEN RepoIntelResponse(sp.repo_data, NoReposInsights)
                    ELSE IF ok
                    THEN RepoIntelResponse(sp.repo_data, ModelInsights)
                    ELSE RequestFault.response]
    /\ UNCHANGED <<mgr_vars, lc_vars, rq, tl, ex>>

\* process_request called on a SpecialistAgent by itself
DirectProcessRequest(repositories) ==
    /\ sp.pc = "idle"
    /\ rq.pc = "idle"
    /\ sp' = ProcessRequestStart("direct", repositories)
    /\ UNCHANGED <<mgr_vars, lc_vars, rq, tl, ex>>

\* the response reaches the direct caller
DirectReturn ==
    /\ sp.pc = "returned"
    /\ sp.caller = "direct"
    /\ sp' = SpIdle
    /\ UNCHANGED <<mgr_vars, lc_vars, rq, tl, ex>>


(***************************************************************************)
(* The request boundary and the request-level operations of AgentManager.  *)
(* A request is made over HTTP (origin "http": the route resolves          *)
(* Depends(get_agent_manager) first, then calls the operation) or by a     *)
(* caller that holds the manager object (origin "direct").                 *)
(***************************************************************************)
Origins == {"http", "direct"}
Recipients == {"specialist_agent", "entry_agent", "unknown_agent"}
MessageTypes == {"repo_analysis", "other"}
CorrelationIds == {"None", "c1"}
\* what EntryAgent.classify_query can answer, "raise" when it faults
Classifications == {"TECH", "GENERAL", "tech", "raise"}

\* A2A payloads: the flat {repositories: ids}, the nested
\* {payload: {repositories: ids}}, a payload entry that is no mapping, {}
FlatPayload(ids) == [repositories |-> List(ids)]
NestedPayload(ids) == [payload |-> Dict([repositories |-> List(ids)])]
BadPayload == [payload |-> Str("text")]
A2APayloads ==
    {FlatPayload(l) : l \in MgrRepoLists}
        \cup {NestedPayload(l) : l \in MgrRepoLists}
        \cup {BadPayload, EmptyDict}

\* a new request occupies the slot
Arrive(op, origin) ==
    /\ rq.pc = "idle"
    /\ sp.pc = "idle"
    /\ rq' = [RqIdle EXCEPT !.pc = IF origin = "http" THEN "boundary"
                                   ELSE "call",
                            !.op = op, !.origin = origin,
                            !.arrived_at = lc_pc]

ArriveTrends(origin) ==
    /\ Arrive("trends", origin)
    /\ UNCHANGED <<mgr_vars, lc_vars, sp, tl, ex>>

ArriveRoute(origin) ==
    /\ Arrive("route", origin)
    /\ UNCHANGED <<mgr_vars, lc_vars, sp, tl, ex>>

ArriveRepo(origin, repositories) ==
    /\ rq.pc = "idle"
    /\ sp.pc = "idle"
    /\ rq' = [RqIdle EXCEPT !.pc = IF origin = "http" THEN "boundary"
                                   ELSE "call",
                            !.op = "repo", !.origin = origin,
                            !.arrived_at = lc_pc,
                            !.repositories = repositories]
    /\ UNCHANGED <<mgr_vars, lc_vars, sp, tl, ex>>

ArriveCombined(origin, auto_detect_repos) ==
    /\ rq.pc = "idle"
    /\ sp.pc = "idle"
    /\ rq' = [RqIdle EXCEPT !.pc = IF origin = "http" THEN "boundary"
                                   ELSE "call",
                            !.op = "combined", !.origin = origin,
                            !.arrived_at = lc_pc,
                            !.auto_detect = auto_detect_repos]
    /\ UNCHANGED <<mgr_vars, lc_vars, sp, tl, ex>>

\* system.py 44-49: the messages sent (A2ASendRequest): every payload to
\* the specialist agent, and one payload to each recipient name
A2AMessages ==
    {[recipient |-> "specialist_agent", message_type |-> t, payload |-> p,
      correlation_id |-> "c1"] : t \in MessageTypes, p \in A2APayloads}
        \cup {[recipient |-> r, message_type |-> "repo_analysis",
                payload |-> FlatPayload(<<RepoAB>>), correlation_id |-> c] :
                  r \in Recipients, c \in CorrelationIds}

\* system.py 52-56: a message for /a2a/send, or for receive_a2a_message
ArriveA2A(origin, m) ==
    /\ rq.pc = "idle"
    /\ sp.pc = "idle"
    /\ rq' = [RqIdle EXCEPT !.pc = IF origin = "http" THEN "boundary"
                                   ELSE "call",
                            !.op = "a2a", !.origin = origin,
                            !.arrived_at = lc_pc,
                            !.recipient = m.recipient,
                            !.message_type = m.message_type,
                            !.payload = m.payload,
                            !.correlation_id = m.correlation_id]
    /\ UNCHANGED <<mgr_vars, lc_vars, sp, tl, ex>>

\* dependencies.py 8-14: 503 unless agent_manager.initialized
GetAgentManager ==
    /\ rq.pc = "boundary"
    /\ rq' = IF ~initialized
             THEN [rq EXCEPT !.pc = "done", !.outcome = "rejected",
                             !.http = 503]
             ELSE [rq EXCEPT !.pc = "call", !.admitted_at = lc_pc]
    /\ UNCHANGED <<mgr_vars, lc_vars, sp, tl, ex>>

\* the status a route answers with: analysis.py and chat.py turn every
\* Exception of the operation into HTTPException(500); /health turns it
\* into HTTPException(503) (system.py 133-135)
HttpStatus(r, outcome) ==
    IF r.origin # "http" THEN 0
    ELSE IF outcome = "returned" THEN 200
    ELSE IF r.op = "health" THEN 503 ELSE 500

\* the operation ends: it raised ("not_initialized", "raised") or returned
Finish(r, outcome) ==
    [r EXCEPT !.pc = "done", !.outcome = outcome,
              !.http = HttpStatus(r, outcome)]

\* the operation is entered
Called(r) ==
    [r EXCEPT !.called = TRUE, !.init_at_call = initialized,
              !.called_at = lc_pc]

\* agent_manager.py 102-103, 116-117: RuntimeError("Agent manager not
\* initialized") unless initialized and the entry agent exists
EntryGuard == initialized /\ Truthy(entry_agent)
\* agent_manager.py 139-140
SpecialistGuard == initialized /\ Truthy(specialist_agent)
\* agent_manager.py 148-149
CombinedGuard ==
    initialized /\ Truthy(entry_agent) /\ Truthy(specialist_agent)

\* agent_manager.py 98-105
ProcessTechTrendsRequest ==
    /\ rq.pc = "call"
    /\ rq.op = "trends"
    /\ rq' = IF ~EntryGuard
             THEN Finish(Called(rq), "not_initialized")
             ELSE [Called(rq) EXCEPT !.pc = "entry_process",
                                     !.entry_calls = rq.entry_calls + 1]
    /\ UNCHANGED <<mgr_vars, lc_vars, sp, tl, ex>>

\* agent_manager.py 107-119: the guard, then classify_query is awaited
RouteUserIntent ==
    /\ rq.pc = "call"
    /\ rq.op = "route"
    /\ rq' = IF ~EntryGuard
             THEN Finish(Called(rq), "not_initialized")
             ELSE [Called(rq) EXCEPT !.pc = "classify",
                                     !.entry_calls = rq.entry_calls + 1]
    /\ UNCHANGED <<mgr_vars, lc_vars, sp, tl, ex>>

\* IsTech that compares case-insensitively
IsTech_AnyCase(classification) == classification \in {"TECH", "tech"}

\* line 121
IsTech(classification) == classification = "TECH"

\* agent_manager.py 119-133: classify_query answered; one pipeline is run
ClassifyReturn(classification) ==
    /\ rq.pc = "classify"
    /\ rq' = IF classification = "raise"
             THEN Finish(rq, "raised")
             ELSE [rq EXCEPT !.classification = classification,
                             !.entry_calls = rq.entry_calls + 1,
                             !.pc = IF IsTech(classification)
                                    THEN "entry_process" ELSE "entry_chat"]
    /\ UNCHANGED <<mgr_vars, lc_vars, sp, tl, ex>>

\* agent_manager.py 131-133: process_general_chat returns or raises
EntryChatReturn(ok) ==
    /\ rq.pc = "entry_chat"
    /\ rq' = IF ok THEN Finish([rq EXCEPT !.route = "chat"], "returned")
             ELSE Finish(rq, "raised")
    /\ UNCHANGED <<mgr_vars, lc_vars, sp, tl, ex>>

\* agent_manager.py 144-155: the guard, then the trend pipeline is awaited
ProcessCombinedAnalysisRequest ==
    /\ rq.pc = "call"
    /\ rq.op = "combined"
    /\ rq' = IF ~CombinedGuard
             THEN Finish(Called(rq), "not_initialized")
             ELSE [Called(rq) EXCEPT !.pc = "entry_process",
                                     !.entry_calls = rq.entry_calls + 1]
    /\ UNCHANGED <<mgr_vars, lc_vars, sp, tl, ex>>

\* agent_manager.py 157-160: the repositories to analyze; the branch on
\* auto_detect_repos is `pass`
RepositoriesToAnalyze(auto_detect_repos) == <<>>

\* responses.py 22-30: every field of RepoIntelResponse is declared with
\* Field(description=...) and no default, so each must be given
\* (insights: str | None has no default either)
RepoIntelResponseFields ==
    {"repositories", "total_repos", "analysis_timestamp", "insights"}

\* agent_manager.py 161-163: the fields the empty repository section gives
EmptySectionFields == {"repositories", "total_repos", "analysis_timestamp"}

\* EntryAgent.process_request returns or raises (agent_manager.py 105,
\* 128-129, 155-182)
EntryProcessReturn(ok) ==
    /\ rq.pc = "entry_process"
    /\ rq' =
         IF ~ok THEN Finish(rq, "raised")
         ELSE IF rq.op = "trends"
         THEN Finish([rq EXCEPT !.trends_ok = TRUE], "returned")
         ELSE IF rq.op = "route"
         THEN Finish([rq EXCEPT !.trends_ok = TRUE, !.route = "trends"],
                     "returned")
         ELSE IF ~(RepoIntelResponseFields \subseteq EmptySectionFields)
         THEN Finish([rq EXCEPT !.trends_ok = TRUE], "raised")
         ELSE IF RepositoriesToAnalyze(rq.auto_detect) # <<>>
         THEN [rq EXCEPT !.pc = "specialist_process",
                         !.trends_ok = TRUE,
                         !.repositories =
                             RepositoriesToAnalyze(rq.auto_detect),
                         !.specialist_calls = rq.specialist_calls + 1]
         ELSE Finish([rq EXCEPT !.trends_ok = TRUE, !.result =
                         [trends |-> "trends_response",
                          repositories |->
                              [repositories |-> <<>>, total_repos |-> 0]]],
                     "returned")
    /\ sp' = IF rq'.pc = "specialist_process"
             THEN ProcessRequestStart("manager", rq'.repositories)
             ELSE sp
    /\ UNCHANGED <<mgr_vars, lc_vars, tl, ex>>

\* agent_manager.py 135-142: the guard, then the specialist pipeline
ProcessRepoIntelRequest ==
    /\ rq.pc = "call"
    /\ rq.op = "repo"
    /\ IF ~SpecialistGuard
       THEN /\ rq' = Finish(Called(rq), "not_initialized")
            /\ UNCHANGED sp
       ELSE /\ rq' = [Called(rq) EXCEPT
                         !.pc = "specialist_process",
                         !.specialist_calls = rq.specialist_calls + 1]
            /\ sp' = ProcessRequestStart("manager", rq.repositories)
    /\ UNCHANGED <<mgr_vars, lc_vars, tl, ex>>

\* specialist_agent.py 137-145: handle_delegation_from_entry(message) up to
\* the await: message.get("payload", {}).get("repositories", []) and the
\* construction of RepoIntelRequest.  A "payload" entry that is no mapping
\* has no .get (AttributeError); repositories that are no list fail the
\* request's validation.
HandleDelegation(message) ==
    LET payload == Get(message, "payload", Dict(EmptyDict))
    IN  IF payload.t # "dict"
        THEN [raised |-> TRUE, error |-> "AttributeError",
              repositories |-> <<>>]
        ELSE LET repositories ==
                     Get(payload.v, "repositories", List(<<>>))
             IN  IF repositories.t # "list"
                 THEN [raised |-> TRUE, error |-> "ValidationError",
                       repositories |-> <<>>]
                 ELSE [raised |-> FALSE, error |-> "None",
                       repositories |-> repositories.v]

\* agent_manager.py 78: which message reaches the specialist's handler
Dispatches(recipient, message_type) ==
    recipient = "specialist_agent" /\ Truthy(specialist_agent)

\* agent_manager.py 80
UnknownRecipient == [error |-> "Unknown recipient or message type"]

\* agent_manager.py 81-83: a fault of the handler becomes {"error": str(e)}
HandlerFault(e) == [error |-> e]

\* A2AStatus that ignores the error key
A2AStatus_AlwaysOk(result) == "ok"

\* system.py 64
A2AStatus(result) == IF "error" \in DOMAIN result THEN "error" ELSE "ok"

\* system.py 63-67: a2a_send wraps the manager's answer
A2ASendResponse(r, result) ==
    IF r.origin = "http"
    THEN [status |-> A2AStatus(result), result |-> result,
          correlation_id |-> r.correlation_id]
    ELSE r.response

\* receive_a2a_message returns result to its caller
A2AReturn(r, result) ==
    Finish([r EXCEPT !.result = result,
                     !.response = A2ASendResponse(r, result)], "returned")

\* agent_manager.py 73-83 up to the handler's await
ReceiveA2AMessage ==
    /\ rq.pc = "call"
    /\ rq.op = "a2a"
    /\ LET h == HandleDelegation(rq.payload)
       IN  IF ~Dispatches(rq.recipient, rq.message_type)
           THEN /\ rq' = A2AReturn(Called(rq), UnknownRecipient)
                /\ UNCHANGED sp
           ELSE IF h.raised
           THEN /\ rq' = A2AReturn(
                           [Called(rq) EXCEPT
                               !.handler_ran = TRUE,
                               !.specialist_calls = rq.specialist_calls + 1],
                           HandlerFault(h.error))
                /\ UNCHANGED sp
           ELSE /\ rq' = [Called(rq) EXCEPT
                             !.pc = "specialist_process",
                             !.handler_ran = TRUE,
                             !.repositories = h.repositories,
                             !.specialist_calls = rq.specialist_calls + 1]
                /\ sp' = ProcessRequestStart("manager", h.repositories)
    /\ UNCHANGED <<mgr_vars, lc_vars, tl, ex>>

\* SpecialistAgent.process_request has returned to the manager:
\* agent_manager.py 142 (the response), 79 with specialist_agent.py 146-150
\* (result.dict())
SpecialistReturn ==
    /\ rq.pc = "specialist_process"
    /\ sp.pc = "returned"
    /\ sp.caller = "manager"
    /\ rq' = IF rq.op = "a2a" THEN A2AReturn(rq, sp.response)
             ELSE Finish([rq EXCEPT !.result = sp.response], "returned")
    /\ UNCHANGED <<mgr_vars, lc_vars, sp, tl, ex>>

\* the answer has gone out; the next request may arrive
Complete ==
    /\ rq.pc = "done"
    /\ rq' = RqIdle
    /\ sp' = SpIdle
    /\ UNCHANGED <<mgr_vars, lc_vars, tl, ex>>

(***************************************************************************)
(* Health: SpecialistAgent.health_check (specialist_agent.py 114-125),     *)
(* AgentManager.health_check (agent_manager.py 184-203) and GET /health    *)
(* (system.py 110-135).  health_check has no initialized guard; each of    *)
(* its four probes is awaited in turn.                                     *)
(***************************************************************************)
\* m with key k set to v
Put(m, k, v) == [x \in DOMAIN m \cup {k} |-> IF x = k THEN v ELSE m[x]]

\* SpecialistHealth that never looks at the registry reference
SpecialistHealth_AlwaysHealthy(mcp_ref) ==
    [status |-> "healthy", details |-> "Agent specialist_agent is operational",
     timestamp |-> "utcnow"]

\* specialist_agent.py 114-125
SpecialistHealth(mcp_ref) ==
    IF ~Truthy(mcp_ref)
    THEN [status |-> "degraded", details |-> "MCP manager not initialized",
          timestamp |-> "utcnow"]
    ELSE [status |-> "healthy",
          details |-> "Agent specialist_agent is operational",
          timestamp |-> "utcnow"]

\* the registry references a SpecialistAgent can be constructed with
McpRefs == {"None", "MCPClientManager"}

\* specialist_agent.py 22-25: SpecialistAgent(agent, mcp_ref) is constructed
\* by a caller of its own, who then asks for its health
ArriveAgentHealth(mcp_ref) ==
    /\ rq.pc = "idle"
    /\ sp.pc = "idle"
    /\ rq' = [RqIdle EXCEPT !.pc = "call", !.op = "agent_health",
                            !.origin = "direct", !.arrived_at = lc_pc,
                            !.mcp_ref = mcp_ref]
    /\ UNCHANGED <<mgr_vars, lc_vars, sp, tl, ex>>

\* specialist_agent.py 114-125 on that agent
DirectHealthCheck ==
    /\ rq.pc = "call"
    /\ rq.op = "agent_health"
    /\ rq' = Finish([rq EXCEPT !.result = SpecialistHealth(rq.mcp_ref)],
                    "returned")
    /\ UNCHANGED <<mgr_vars, lc_vars, sp, tl, ex>>

\* what MCPClientManager.health_check_all can answer: availability by
\* capability name
McpHealths ==
    {EmptyDict,
     [brave_search |-> TRUE],
     [brave_search |-> TRUE, github |-> FALSE],
     [brave_search |-> FALSE, github |-> FALSE]}

\* the probes of agent_manager.py 193-202, in order
Probes == <<"entry_agent", "specialist_agent", "mcp_servers", "a2a_service">>

\* the field each probe is guarded by (lines 193, 195, 199, 201)
ProbeRef(k) ==
    CASE k = 1 -> entry_agent
      [] k = 2 -> specialist_agent
      [] k = 3 -> mcp_manager
      [] OTHER -> a2a_service

\* the probes after the k-th whose component exists
ProbesAfter(k) == {j \in (k + 1)..Len(Probes) : Truthy(ProbeRef(j))}

\* OverallStatus without lines 120-122: the registry's answer is not
\* consulted
OverallStatus_IgnoringServers(health_data) ==
    IF ~health_data.agent_manager.initialized THEN "degraded" ELSE "healthy"

\* system.py 117-122
OverallStatus(health_data) ==
    IF ~health_data.agent_manager.initialized THEN "degraded"
    ELSE IF ~(\A k \in DOMAIN health_data.mcp_servers :
                 health_data.mcp_servers[k])
    THEN "degraded"
    ELSE "healthy"

\* system.py 123-132
HealthResponse(health_data) ==
    [status |-> OverallStatus(health_data),
     timestamp |-> "utcnow",
     version |-> "app_version",
     mcp_servers |-> health_data.mcp_servers,
     agents_status |->
         [a \in DOMAIN health_data.agents |->
             IF "status" \in DOMAIN health_data.agents[a]
             THEN health_data.agents[a].status ELSE "unknown"]]

\* the k-th probe has answered (k = 0: none has been made yet): the next
\* probe whose component exists is awaited, or health_check returns
\* (agent_manager.py 203) and /health builds its answer
HealthAdvance(r, k) ==
    IF ProbesAfter(k) # {}
    THEN [r EXCEPT !.pc = "health_probe",
                   !.probe = CHOOSE j \in ProbesAfter(k) :
                                 \A i \in ProbesAfter(k) : j <= i]
    ELSE Finish([r EXCEPT !.response =
                     IF r.origin = "http" THEN HealthResponse(r.result)
                     ELSE EmptyDict],
                "returned")

\* agent_manager.py 193-202: no probe is inside a try block, so a fault
\* of the k-th probe leaves health_check at once
HealthFault(r, k) ==
    Finish([r EXCEPT !.health_fault = Probes[k]], "raised")

ArriveHealth(origin) ==
    /\ Arrive("health", origin)
    /\ UNCHANGED <<mgr_vars, lc_vars, sp, tl, ex>>

\* agent_manager.py 186-193: health_status is built, the first probe starts
ManagerHealthCheck ==
    /\ rq.pc = "call"
    /\ rq.op = "health"
    /\ rq' = HealthAdvance(
                 [rq EXCEPT !.result =
                     [agent_manager |-> [initialized |-> initialized],
                      agents |-> EmptyDict,
                      mcp_servers |-> EmptyDict,
                      a2a_service |-> EmptyDict,
                      timestamp |-> "utcnow"]], 0)
    /\ UNCHANGED <<mgr_vars, lc_vars, sp, tl, ex>>

\* lines 193-194: entry_agent.health_check() returns or raises
HealthEntryReturn(ok) ==
    /\ rq.pc = "health_probe"
    /\ rq.probe = 1
    /\ rq' = IF ~ok THEN HealthFault(rq, 1)
             ELSE HealthAdvance(
                      [rq EXCEPT !.result.agents =
                          Put(rq.result.agents, "entry_agent",
                              [status |-> "healthy"])], 1)
    /\ UNCHANGED <<mgr_vars, lc_vars, sp, tl, ex>>

\* lines 195-198: specialist_agent.health_check() returns
HealthSpecialistReturn ==
    /\ rq.pc = "health_probe"
    /\ rq.probe = 2
    /\ rq' = HealthAdvance(
                 [rq EXCEPT !.result.agents =
                     Put(rq.result.agents, "specialist_agent",
                         SpecialistHealth(sa_mcp))], 2)
    /\ UNCHANGED <<mgr_vars, lc_vars, sp, tl, ex>>

\* lines 199-200: mcp_manager.health_check_all() returns or raises
HealthMcpReturn(ok, servers) ==
    /\ rq.pc = "health_probe"
    /\ rq.probe = 3
    /\ rq' = IF ~ok THEN HealthFault(rq, 3)
             ELSE HealthAdvance([rq EXCEPT !.result.mcp_servers = servers], 3)
    /\ UNCHANGED <<mgr_vars, lc_vars, sp, tl, ex>>

\* lines 201-203: a2a_service.health_check() returns or raises
HealthA2AReturn(ok) ==
    /\ rq.pc = "health_probe"
    /\ rq.probe = 4
    /\ rq' = IF ~ok THEN HealthFault(rq, 4)
             ELSE HealthAdvance(
                      [rq EXCEPT !.result.a2a_service =
                          [status |-> "running"]], 4)
    /\ UNCHANGED <<mgr_vars, lc_vars, sp, tl, ex>>

(***************************************************************************)
(* The tools AgentFactory._register_tools gives every agent                *)
(* (factory.py 33-95).                                                     *)
(***************************************************************************)
Tools ==
    {"search_brave", "get_hacker_news_stories", "search_github_repos",
     "get_github_repo_details"}

\* the names the tools pass to mcp_manager.get_client (lines 39, 56, 74, 88)
BraveSearchName ==
    <<"b", "r", "a", "v", "e", "_", "s", "e", "a", "r", "c", "h">>
HackerNewsName ==
    <<"h", "a", "c", "k", "e", "r", "_", "n", "e", "w", "s">>
GitHubName ==
    <<"g", "i", "t", "h", "u", "b">>
Capabilities == {BraveSearchName, HackerNewsName, GitHubName}

\* lines 39, 56, 74, 88
Capability(tool) ==
    CASE tool = "search_brave" -> BraveSearchName
      [] tool = "get_hacker_news_stories" -> HackerNewsName
      [] OTHER -> GitHubName

\* the error texts of lines 41, 58, 76, 90
BraveUnavailable ==
    <<"B", "r", "a", "v", "e", " ", "S", "e", "a", "r", "c", "h", " ", "M",
      "C", "P", " ", "c", "l", "i", "e", "n", "t", " ", "n", "o", "t", " ",
      "a", "v", "a", "i", "l", "a", "b", "l", "e">>
HackerNewsUnavailable ==
    <<"H", "a", "c", "k", "e", "r", " ", "N", "e", "w", "s", " ", "M", "C",
      "P", " ", "c", "l", "i", "e", "n", "t", " ", "n", "o", "t", " ", "a",
      "v", "a", "i", "l", "a", "b", "l", "e">>
GitHubUnavailable ==
    <<"G", "i", "t", "H", "u", "b", " ", "M", "C", "P", " ", "c", "l", "i",
      "e", "n", "t", " ", "n", "o", "t", " ", "a", "v", "a", "i", "l", "a",
      "b", "l", "e">>

\* Unavailable with the GitHub text pasted into every tool
Unavailable_Pasted(tool) == [error |-> GitHubUnavailable]

\* lines 40-41, 57-58, 75-76, 89-90: the mapping returned when get_client
\* gave no client
Unavailable(tool) ==
    CASE tool = "search_brave" -> [error |-> BraveUnavailable]
      [] tool = "get_hacker_news_stories" -> [error |-> HackerNewsUnavailable]
      [] OTHER -> [error |-> GitHubUnavailable]

\* MCPClientManager.get_client(name): the client of a connected capability,
\* None for a name the registry has no client for
GetClient(clients, name) == IF name \in clients THEN "client" ELSE "None"

\* line 13: int(os.getenv("BRAVE_WEB_SEARCH_LIMIT", "20"))
BRAVE_WEB_SEARCH_LIMIT == 20

\* str.lower() on the story types the callers use
Lower(s) == IF s = "TOP" THEN "top" ELSE s

\* HnStoryType as type_map.get(story_type.lower(), "topstories")
HnStoryType_DefaultTop(story_type) ==
    CASE Lower(story_type) = "new" -> "newstories"
      [] Lower(story_type) = "best" -> "beststories"
      [] OTHER -> "topstories"

\* lines 60-61: type_map.get(story_type.lower(), story_type)
HnStoryType(story_type) ==
    CASE Lower(story_type) = "top" -> "topstories"
      [] Lower(story_type) = "new" -> "newstories"
      [] Lower(story_type) = "best" -> "beststories"
      [] OTHER -> story_type

\* the operation each tool names in call_tool (lines 44, 63, 79, 92)
Operation(tool) ==
    CASE tool = "search_brave" -> "brave_web_search"
      [] tool = "get_hacker_news_stories" -> "get_stories"
      [] tool = "search_github_repos" -> "search_repositories"
      [] OTHER -> "get_repository"

\* the argument mapping each tool hands to call_tool, from the arguments
\* the caller gave (a: the keyword arguments given); the signatures' defaults
\* stand in for what the caller left out (lines 37, 53, 71, 86)
CallArgs(tool, a) ==
    CASE tool = "search_brave" ->
            [query |-> a.query, freshness |-> Get(a, "freshness", "pm"),
             count |-> BRAVE_WEB_SEARCH_LIMIT]
      [] tool = "get_hacker_news_stories" ->
            [story_type |-> HnStoryType(Get(a, "story_type", "top")),
             limit |-> Get(a, "limit", 10)]
      [] tool = "search_github_repos" ->
            [query |-> a.query, sort |-> Get(a, "sort", "stars"),
             per_page |-> Get(a, "limit", 10)]
      [] OTHER -> [owner |-> a.owner, repo |-> a.repo]

\* lines 48-49, 66-67 (with details) and 82-83, 94-95 (without)
ToolFault(tool, e) ==
    IF tool \in {"search_brave", "get_hacker_news_stories"}
    THEN [error |-> "mcp_connection_failed", details |-> e]
    ELSE [error |-> e]

\* the keyword arguments a caller gives each tool
ToolArgs(tool) ==
    CASE tool = "search_brave" ->
            {[query |-> "q"], [query |-> "q", freshness |-> "pd"]}
      [] tool = "get_hacker_news_stories" ->
            {EmptyDict, [limit |-> 5]}
              \cup {[story_type |-> t] :
                       t \in {"top", "new", "best", "TOP", "ask"}}
              \cup {[story_type |-> t, limit |-> 5] : t \in {"new", "ask"}}
      [] tool = "search_github_repos" ->
            {[query |-> "q"], [query |-> "q", sort |-> "forks"],
             [query |-> "q", limit |-> 5],
             [query |-> "q", sort |-> "forks", limit |-> 5]}
      [] OTHER -> {[owner |-> "a", repo |-> "b"]}

\* a tool is invoked by the agent's reasoning loop, in a registry that has
\* clients for the capabilities in clients; the code up to the await
InvokeTool(tool, a, clients) ==
    /\ tl.pc = "idle"
    /\ tl' = IF ~Truthy(GetClient(clients, Capability(tool)))
             THEN [tl EXCEPT !.pc = "done", !.clients = clients,
                             !.tool = tool, !.args = a,
                             !.result = Unavailable(tool)]
             ELSE [tl EXCEPT !.pc = "call_tool", !.clients = clients,
                             !.tool = tool, !.args = a,
                             !.calls = Append(tl.calls,
                                 [operation |-> Operation(tool),
                                  args |-> CallArgs(tool, a)])]
    /\ UNCHANGED <<mgr_vars, lc_vars, rq, sp, ex>>

\* client.call_tool returns its mapping or raises
CallToolReturn(ok) ==
    /\ tl.pc = "call_tool"
    /\ tl' = [tl EXCEPT !.pc = "done", !.fault = ~ok,
                        !.result = IF ok THEN [content |-> "data"]
                                   ELSE ToolFault(tl.tool, "fault")]
    /\ UNCHANGED <<mgr_vars, lc_vars, rq, sp, ex>>

\* the mapping is back in the reasoning loop
ToolDone ==
    /\ tl.pc = "done"
    /\ tl' = TlIdle
    /\ UNCHANGED <<mgr_vars, lc_vars, rq, sp, ex>>

NextTools ==
    \/ \E tool \in Tools, clients \in SUBSET Capabilities :
          \E a \in ToolArgs(tool) : InvokeTool(tool, a, clients)
    \/ \E ok \in BOOLEAN : CallToolReturn(ok)
    \/ ToolDone

SpecTools == Init /\ [][NextTools]_vars

(***************************************************************************)
(* SpecialistAgent._extract_content (specialist_agent.py 127-135), applied *)
(* to texts with and without the framing of str(AgentRunResult).           *)
(***************************************************************************)
\* line 129: "AgentRunResult(output="
WrapperMarker ==
    <<"A", "g", "e", "n", "t", "R", "u", "n", "R", "e", "s", "u", "l", "t",
      "(", "o", "u", "t", "p", "u", "t", "=">>
\* line 130: "output='"
OutputMarker == <<"o", "u", "t", "p", "u", "t", "=", "'">>
\* line 132: "')"
ClosingMarker == <<"'", ")">>
\* line 134: "\\'" (a backslash and a quote) and "'"
EscapedQuote == <<"\\", "'">>
Quote == <<"'">>

\* s.rfind(sub), 1-based; 0 when absent (Python: -1)
RFind(s, sub) ==
    IF Contains(s, sub)
    THEN CHOOSE i \in 1..(Len(s) - Len(sub) + 1) :
            /\ SubSeq(s, i, i + Len(sub) - 1) = sub
            /\ \A j \in (i + 1)..(Len(s) - Len(sub) + 1) :
                   SubSeq(s, j, j + Len(sub) - 1) # sub
    ELSE 0

\* s.replace(old, new) for a non-empty old: occurrences are replaced from
\* the left and do not overlap
RECURSIVE Replace(_, _, _)
Replace(s, old, new) ==
    IF Len(s) < Len(old) THEN s
    ELSE IF SubSeq(s, 1, Len(old)) = old
    THEN new \o Replace(SubSeq(s, Len(old) + 1, Len(s)), old, new)
    ELSE <<Head(s)>> \o Replace(Tail(s), old, new)

\* ClosingIndex with find in place of rfind
ClosingIndex_First(s) == Find(s, ClosingMarker)

\* line 132: end = agent_result_str.rfind("')"), here 1-based
ClosingIndex(s) == RFind(s, ClosingMarker)

\* lines 127-135.  With 1-based positions, Python's start is
\* Find + Len(OutputMarker) - 1 and Python's end is ClosingIndex - 1, so
\* `start > 7` is Find > 0, `end > start` is ClosingIndex > Find + 8 and
\* agent_result_str[start:end] is SubSeq(s, Find + 8, ClosingIndex - 1).
ExtractContent(agent_result_str) ==
    LET s == agent_result_str
        open == Find(s, OutputMarker)
        start == open + Len(OutputMarker)
        end == ClosingIndex(s)
    IN  IF Contains(s, WrapperMarker) /\ open > 0 /\ end > start
        THEN Replace(SubSeq(s, start, end - 1), EscapedQuote, Quote)
        ELSE s

\* the characters of the texts tried: a letter, a backslash, a quote, a
\* closing parenthesis
BodyChars == {"a", "\\", "'", ")"}

\* every text of at most n of those characters
RECURSIVE Bodies(_)
Bodies(n) ==
    IF n = 0 THEN {<<>>}
    ELSE LET shorter == Bodies(n - 1)
         IN  shorter \cup {Append(b, c) :
                              b \in {t \in shorter : Len(t) = n - 1},
                              c \in BodyChars}

\* str(AgentRunResult(output=b)) when repr(b) uses single quotes
SingleQuoted(b) == WrapperMarker \o <<"'">> \o b \o ClosingMarker
\* the same when repr(b) uses double quotes
DoubleQuoted(b) == WrapperMarker \o <<"\"">> \o b \o <<"\"", ")">>
\* a text that holds output='...' without the AgentRunResult wrapper
Unwrapped(b) == OutputMarker \o b \o ClosingMarker

ExtractInputs ==
    Bodies(MaxBodyLen)
        \cup {SingleQuoted(b) : b \in Bodies(MaxBodyLen)}
        \cup {DoubleQuoted(b) : b \in Bodies(MaxBodyLen)}
        \cup {Unwrapped(b) : b \in Bodies(MaxBodyLen)}

\* _extract_content(agent_result_str) is applied
ExtractContentCall(agent_result_str) ==
    /\ ex.pc = "idle"
    /\ ex' = [pc |-> "returned", input |-> agent_result_str,
              output |-> ExtractContent(agent_result_str)]
    /\ UNCHANGED <<mgr_vars, lc_vars, rq, sp, tl>>

ExtractContentReturn ==
    /\ ex.pc = "returned"
    /\ ex' = ExIdle
    /\ UNCHANGED <<mgr_vars, lc_vars, rq, sp, tl>>

NextExtract ==
    \/ \E t \in ExtractInputs : ExtractContentCall(t)
    \/ ExtractContentReturn

SpecExtract == Init /\ [][NextExtract]_vars

(***************************************************************************)
(* SpecialistAgent.process_request called on an agent by itself.           *)
(***************************************************************************)
NextRepo ==
    \/ \E l \in AgentRepoLists : DirectProcessRequest(l)
    \/ \E o \in LookupOutcomes : AnalyzeNext(o)
    \/ \E ok \in BOOLEAN : Summarise(ok)
    \/ DirectReturn

SpecRepo == Init /\ [][NextRepo]_vars

(***************************************************************************)
(* The service: lifespan, requests and the specialist pipeline.            *)
(***************************************************************************)
InitFaults ==
    {"none", "connect", "entry_agent", "specialist_agent", "a2a_service"}

Next ==
    \/ InitializeBegin
    \/ \E f \in InitFaults : InitializeConnected(f)
    \/ \E ok \in BOOLEAN : InitializeServerStarted(ok)
    \/ \E ok \in BOOLEAN : InitializeEntryRegistered(ok)
    \/ \E ok \in BOOLEAN : InitializeSpecialistRegistered(ok)
    \/ ShutdownBegin
    \/ \E ok \in BOOLEAN : ShutdownServerStopped(ok)
    \/ \E ok \in BOOLEAN : ShutdownRegistryClosed(ok)
    \/ \E o \in Origins : ArriveTrends(o)
    \/ \E o \in Origins : ArriveRoute(o)
    \/ \E o \in Origins, l \in MgrRepoLists : ArriveRepo(o, l)
    \/ \E o \in Origins, a \in BOOLEAN : ArriveCombined(o, a)
    \/ \E o \in Origins, m \in A2AMessages : ArriveA2A(o, m)
    \/ GetAgentManager
    \/ ProcessTechTrendsRequest
    \/ RouteUserIntent
    \/ \E c \in Classifications : ClassifyReturn(c)
    \/ \E ok \in BOOLEAN : EntryChatReturn(ok)
    \/ ProcessCombinedAnalysisRequest
    \/ \E ok \in BOOLEAN : EntryProcessReturn(ok)
    \/ ProcessRepoIntelRequest
    \/ ReceiveA2AMessage
    \/ \E o \in LookupOutcomes : AnalyzeNext(o)
    \/ \E ok \in BOOLEAN : Summarise(ok)
    \/ SpecialistReturn
    \/ \E o \in Origins : ArriveHealth(o)
    \/ ManagerHealthCheck
    \/ \E ok \in BOOLEAN : HealthEntryReturn(ok)
    \/ HealthSpecialistReturn
    \/ \E ok \in BOOLEAN, m \in McpHealths : HealthMcpReturn(ok, m)
    \/ \E ok \in BOOLEAN : HealthA2AReturn(ok)
    \/ \E ref \in McpRefs : ArriveAgentHealth(ref)
    \/ DirectHealthCheck
    \/ Complete

Spec == Init /\ [][Next]_vars

(***************************************************************************)
(* Properties.                                                             *)
(***************************************************************************)
Range(f) == {f[x] : x \in DOMAIN f}
FullNames(repo_data) == [k \in 1..Len(repo_data) |-> repo_data[k].full_name]
FirstTen(repositories) ==
    SubSeq(repositories, 1, Min(Len(repositories), 10))

\* a is b with some elements left out, order kept
RECURSIVE IsSubsequence(_, _)
IsSubsequence(a, b) ==
    IF a = <<>> THEN TRUE
    ELSE IF b = <<>> THEN FALSE
    ELSE IF Head(a) = Head(b) THEN IsSubsequence(Tail(a), Tail(b))
    ELSE IsSubsequence(a, Tail(b))

\* C1: whenever a request-level operation of the manager is entered while
\* initialized is false, it ends at once in failure (the not-initialized
\* RuntimeError; for message delivery, which reports its failures as error
\* mappings, an error answer is accepted too) and no call has been made
\* into the entry agent or the specialist agent.
C1_NoWorkWhenNotInitialized ==
    (rq.called /\ ~rq.init_at_call) =>
        /\ rq.pc = "done"
        /\ rq.entry_calls = 0
        /\ rq.specialist_calls = 0
        /\ sp.pc = "idle"
        /\ \/ rq.outcome = "not_initialized"
           \/ rq.op = "a2a" /\ "error" \in DOMAIN rq.result

\* C2: a sub-step of initialize that faults leaves initialized false and
\* the fault is re-raised; initialized is true only after every sub-step
\* (connect, both agents, the messaging service, start_server, both
\* registrations) has succeeded.
C2_InitializeAllOrNothing ==
    /\ init_fault # "none" => (init_result = "raised" /\ ~initialized)
    /\ initialized => (init_steps = AllInitSteps /\ init_fault = "none"
                        /\ init_result = "returned")

\* C2 witness: the last sub-step faulted after all others had succeeded
C2_Witness ==
    /\ init_fault = "register_specialist"
    /\ init_steps = AllInitSteps \ {"register_specialist"}
    /\ init_result = "raised"
    /\ ~initialized

\* C3: an HTTP request passes get_agent_manager only while the manager is
\* ready: never before initialize has completed and never once shutdown has
\* begun (while it stops the messaging service or closes the registry, or
\* after it has ended).
C3_AdmittedOnlyWhileReady ==
    rq.admitted_at \in {"none", "serving"}

\* C4: a fault of a step of shutdown (stop_server or __aexit__ raising) is
\* propagated to the caller of shutdown, and afterwards initialized is
\* false, so that the boundary rejects every request.
C4_ShutdownFaultIsFatal ==
    shutdown_fault # "none" =>
        (shutdown_result = "raised" /\ ~initialized)

\* C5: process_request attempts the identifiers of the request in their
\* order, never one at position 11 or later, and when it returns it has
\* attempted exactly the first 10 (all of them when there are fewer); the
\* full names of the returned records are a subsequence of those first 10.
C5_FirstTenInOrder ==
    /\ Len(sp.attempted) <= 10
    /\ Len(sp.attempted) <= Len(sp.repositories)
    /\ sp.attempted = SubSeq(sp.repositories, 1, Len(sp.attempted))
    /\ sp.pc = "returned" =>
          /\ sp.attempted = FirstTen(sp.repositories)
          /\ IsSubsequence(FullNames(sp.response.repositories),
                           FirstTen(sp.repositories))

\* C5 witness: a list of more than 10 identifiers was processed and
\* records were returned
C5_Witness ==
    /\ sp.pc = "returned"
    /\ Len(sp.repositories) > 10
    /\ Len(sp.response.repositories) >= 2

\* C6: an attempted identifier that does not have exactly one "/" has no
\* lookup issued for it and no record in the collected data.
C6_MalformedNeverLookedUp ==
    \A k \in 1..Len(sp.attempted) :
        Separators(sp.attempted[k]) # 1 =>
            /\ SplitOnce(sp.attempted[k]) \notin Range(sp.lookups)
            /\ sp.attempted[k] \notin Range(FullNames(sp.repo_data))

\* a fault hit the resolution of some identifier of the request
ItemFault == sp.faults \cap {"raise", "empty", "construct"} # {}

\* C7 as stated: after a per-item fault, when process_request returns every
\* identifier among the first 10 was attempted and every successfully
\* resolved one is in the result.
C7_ResolvedAlwaysReturned ==
    (sp.pc = "returned" /\ ItemFault) =>
        /\ sp.attempted = FirstTen(sp.repositories)
        /\ FullNames(sp.response.repositories) = sp.resolved

\* C7 amended: after a per-item fault, when process_request returns every
\* identifier among the first 10 was attempted, and every successfully
\* resolved one is in the result unless the summarising model call faulted,
\* in which case the result holds no repository at all.
C7_ResolvedReturnedUnlessSummaryFaults ==
    (sp.pc = "returned" /\ ItemFault) =>
        /\ sp.attempted = FirstTen(sp.repositories)
        /\ FullNames(sp.response.repositories) =
              IF sp.summary_fault THEN <<>> ELSE sp.resolved

\* C7 witness: a lookup raised, two other identifiers were resolved and
\* both are returned
C7_Witness ==
    /\ sp.pc = "returned"
    /\ "raise" \in sp.faults
    /\ Len(sp.resolved) >= 2
    /\ ~sp.summary_fault
    /\ FullNames(sp.response.repositories) = sp.resolved

\* C8: a delegation whose payload is {repositories: ids}, delivered to an
\* initialized manager and dispatched to the specialist's handler, runs the
\* pipeline on exactly ids, and the answer's total_repos is the number of
\* identifiers that were resolved.
C8_DelegationRunsOnPayloadIds ==
    (rq.op = "a2a" /\ rq.init_at_call /\ rq.handler_ran
        /\ "repositories" \in DOMAIN rq.payload) =>
        /\ rq.pc \in {"specialist_process", "done"}
        /\ sp.repositories = rq.payload.repositories.v
        /\ rq.pc = "done" =>
              /\ "total_repos" \in DOMAIN rq.result
              /\ rq.result.total_repos = Len(sp.resolved)

\* the payload of the request makes the handler fault
FaultingPayload ==
    /\ "payload" \in DOMAIN rq.payload
    /\ rq.payload.payload.t # "dict"

\* C9: receive_a2a_message never raises; for a recipient the manager does
\* not know and for a handler that faults it returns a mapping with an
\* error key, and /a2a/send then answers status "error" with the request's
\* correlation_id.
C9_DeliveryFaultsBecomeErrorMappings ==
    (rq.op = "a2a" /\ rq.called) =>
        /\ rq.outcome \in {"none", "returned"}
        /\ (rq.pc = "done"
              /\ (rq.recipient # "specialist_agent"
                    \/ (rq.handler_ran /\ FaultingPayload))) =>
              /\ "error" \in DOMAIN rq.result
              /\ rq.origin = "http" =>
                    /\ rq.http = 200
                    /\ rq.response.status = "error"
                    /\ rq.response.correlation_id = rq.correlation_id
                    /\ "error" \in DOMAIN rq.response.result

\* C9 witness: the handler faulted on an HTTP delivery that carried a
\* correlation id
C9_Witness ==
    /\ rq.op = "a2a"
    /\ rq.pc = "done"
    /\ rq.origin = "http"
    /\ rq.handler_ran
    /\ FaultingPayload
    /\ rq.correlation_id = "c1"
    /\ rq.response.status = "error"

\* the registry had no client for the capability of the invoked tool
ClientAbsent ==
    /\ tl.pc = "done"
    /\ Capability(tl.tool) \notin tl.clients

\* C10 as stated: a tool whose capability has no client returns an error
\* mapping that contains the capability name, calls no call_tool and does
\* not raise.
C10_ErrorNamesCapability ==
    ClientAbsent =>
        /\ DOMAIN tl.result = {"error"}
        /\ Contains(tl.result.error, Capability(tl.tool))
        /\ tl.calls = <<>>
        /\ ~tl.raised

\* the name each capability has in the tools' messages
DisplayName(capability) ==
    CASE capability = BraveSearchName ->
            <<"B", "r", "a", "v", "e", " ", "S", "e", "a", "r", "c", "h">>
      [] capability = HackerNewsName ->
            <<"H", "a", "c", "k", "e", "r", " ", "N", "e", "w", "s">>
      [] OTHER -> <<"G", "i", "t", "H", "u", "b">>

ClientNotAvailable ==
    <<" ", "M", "C", "P", " ", "c", "l", "i", "e", "n", "t", " ", "n", "o",
      "t", " ", "a", "v", "a", "i", "l", "a", "b", "l", "e">>

\* C10 amended: a tool whose capability has no client returns a mapping
\* with the single key error, whose text is "<display name> MCP client not
\* available" (Brave Search, Hacker News, GitHub: the display name of the
\* capability, not its registry name), calls no call_tool and does not
\* raise.
C10_ErrorNamesCapabilityForDisplay ==
    ClientAbsent =>
        /\ DOMAIN tl.result = {"error"}
        /\ tl.result.error =
              DisplayName(Capability(tl.tool)) \o ClientNotAvailable
        /\ tl.calls = <<>>
        /\ ~tl.raised

\* C10 witness: search_brave was invoked while only the other two
\* capabilities had clients
C10_Witness ==
    /\ ClientAbsent
    /\ tl.tool = "search_brave"
    /\ tl.clients = {HackerNewsName, GitHubName}
    /\ "error" \in DOMAIN tl.result

\* the registry had a client and its call_tool raised
CallToolFaulted ==
    /\ tl.pc = "done"
    /\ tl.fault

\* C11: when the client is present and call_tool faults, the tool does not
\* raise and returns a mapping with an error classification and a details
\* field that carries the fault message.
C11_ToolFaultHasDetails ==
    CallToolFaulted =>
        /\ ~tl.raised
        /\ DOMAIN tl.result = {"error", "details"}
        /\ tl.result.details = "fault"

\* C12: route_user_intent makes one classification call and then runs one
\* pipeline: the trend pipeline (route "trends") only for the classifier
\* output "TECH", the chat pipeline (route "chat") for every other output.
C12_RouteByClassification ==
    rq.op = "route" =>
        /\ rq.pc = "classify" => rq.entry_calls = 1
        /\ rq.pc = "entry_process" =>
              (rq.classification = "TECH" /\ rq.entry_calls = 2)
        /\ rq.pc = "entry_chat" =>
              (rq.classification \notin {"TECH", "none"}
                 /\ rq.entry_calls = 2)
        /\ rq.route = "trends" => rq.classification = "TECH"
        /\ rq.route = "chat" => rq.classification \notin {"TECH", "none"}
        /\ (rq.pc = "done" /\ rq.outcome = "returned") =>
              (rq.route \in {"trends", "chat"} /\ rq.entry_calls = 2)

\* C12 witness: the classifier answered "tech", which is not the
\* recognised token, and the chat pipeline answered
C12_Witness ==
    /\ rq.op = "route"
    /\ rq.pc = "done"
    /\ rq.classification = "tech"
    /\ rq.route = "chat"

\* C13: a combined-analysis request whose trend pipeline has returned ends
\* by returning the trend result with an empty repository section
\* (repositories = [], total_repos = 0), after one call into the entry
\* agent and none into the specialist agent, whatever auto_detect_repos is.
C13_CombinedReturnsEmptySection ==
    (rq.op = "combined" /\ rq.pc = "done" /\ rq.trends_ok) =>
        /\ rq.outcome = "returned"
        /\ rq.entry_calls = 1
        /\ rq.specialist_calls = 0
        /\ "repositories" \in DOMAIN rq.result
        /\ rq.result.repositories.repositories = <<>>
        /\ rq.result.repositories.total_repos = 0

\* C14: a fault raised by one probe of AgentManager.health_check does not
\* abort the collection: the call still returns its mapping.
C14_ProbeFaultDoesNotAbort ==
    (/\ rq.op = "health"
     /\ rq.pc = "done"
     /\ rq.health_fault # "none"
     /\ rq.result.agent_manager.initialized) =>
        /\ rq.outcome = "returned"
        /\ "agent_manager" \in DOMAIN rq.result

\* the status SpecialistAgent.health_check has to report for a registry
\* reference
ExpectedStatus(mcp_ref) ==
    IF mcp_ref = "None" THEN "degraded" ELSE "healthy"

\* the manager's health data holds a report of its specialist agent
SpecialistReported ==
    /\ rq.op = "health"
    /\ "agents" \in DOMAIN rq.result
    /\ "specialist_agent" \in DOMAIN rq.result.agents

\* C15: every report of the repository agent's health_check has status
\* "degraded" when the agent's registry reference is absent and "healthy"
\* otherwise, whether the registry is connected or closed.
C15_DegradedIffRegistryAbsent ==
    /\ (rq.op = "agent_health" /\ rq.pc = "done") =>
          rq.result.status = ExpectedStatus(rq.mcp_ref)
    /\ SpecialistReported =>
          rq.result.agents.specialist_agent.status = ExpectedStatus(sa_mcp)

\* C15 witness: the manager's agent reports "healthy" after shutdown has
\* closed the registry it holds
C15_Witness ==
    /\ SpecialistReported
    /\ rq.result.agents.specialist_agent.status = "healthy"
    /\ lc_pc = "exited"
    /\ ~mcp_connected

\* GET /health has answered from health data the manager returned
HealthAnswered ==
    /\ rq.op = "health"
    /\ rq.origin = "http"
    /\ rq.pc = "done"
    /\ rq.outcome = "returned"

\* C17: when health collection succeeds GET /health answers 200, with
\* status "healthy" exactly when the health data says initialized and
\* every entry of mcp_servers is true, and "degraded" in every other case.
C17_HealthyIffInitializedAndAllServers ==
    HealthAnswered =>
        /\ rq.http = 200
        /\ rq.response.status \in {"healthy", "degraded"}
        /\ rq.response.status = "healthy" <=>
              /\ rq.result.agent_manager.initialized
              /\ \A k \in DOMAIN rq.result.mcp_servers :
                     rq.result.mcp_servers[k]

\* C17 witness: initialized, one server unavailable, answer "degraded"
C17_Witness ==
    /\ HealthAnswered
    /\ rq.result.agent_manager.initialized
    /\ \E k \in DOMAIN rq.result.mcp_servers : ~rq.result.mcp_servers[k]
    /\ rq.response.status = "degraded"

\* C16: SpecialistAgent.process_request never raises; when it has ended it
\* has returned a response with every field, and when the summarising
\* model call faulted that response has repositories = [], total_repos = 0
\* and the error note as insights.
C16_ProcessRequestAlwaysResponds ==
    /\ sp.pc \in {"idle", "loop", "returned"}
    /\ sp.pc = "returned" =>
          DOMAIN sp.response = {"repositories", "total_repos",
                                "analysis_timestamp", "insights"}
    /\ (sp.pc = "returned" /\ sp.summary_fault) =>
          /\ sp.response.repositories = <<>>
          /\ sp.response.total_repos = 0
          /\ sp.response.insights = ErrorInsights

\* C16 witness: records were collected, the summarising call faulted, and
\* the error response was returned
C16_Witness ==
    /\ sp.pc = "returned"
    /\ sp.summary_fault
    /\ sp.repo_data # <<>>
    /\ sp.response.insights = ErrorInsights

\* where the opening and the closing marker sit in a text
OpenAt(s) ==
    {i \in 1..(Len(s) - Len(OutputMarker) + 1) :
        SubSeq(s, i, i + Len(OutputMarker) - 1) = OutputMarker}
CloseAt(s) ==
    {i \in 1..(Len(s) - Len(ClosingMarker) + 1) :
        SubSeq(s, i, i + Len(ClosingMarker) - 1) = ClosingMarker}
FirstOpen(s) == CHOOSE i \in OpenAt(s) : \A j \in OpenAt(s) : i <= j
LastClose(s) == CHOOSE i \in CloseAt(s) : \A j \in CloseAt(s) : j <= i

\* the text between the first opening marker and the last closing marker
Enclosed(s) == SubSeq(s, FirstOpen(s) + Len(OutputMarker), LastClose(s) - 1)

\* the wrapper, an opening marker and, behind it, a closing marker
MarkersPresent(s) ==
    /\ Contains(s, WrapperMarker)
    /\ OpenAt(s) # {}
    /\ CloseAt(s) # {}
    /\ LastClose(s) >= FirstOpen(s) + Len(OutputMarker)

\* t with every backslash that stands before a quote left out
RECURSIVE StripEscapes(_)
StripEscapes(t) ==
    IF Len(t) < 2 THEN t
    ELSE IF t[Len(t) - 1] = "\\" /\ t[Len(t)] = "'"
    THEN StripEscapes(SubSeq(t, 1, Len(t) - 2)) \o <<"'">>
    ELSE StripEscapes(SubSeq(t, 1, Len(t) - 1)) \o <<t[Len(t)]>>

\* C18: _extract_content returns the input unchanged whenever the input
\* has no wrapper marker, and when the markers are present it returns
\* exactly the text enclosed between the opening output marker and the
\* last closing marker.
C18_ReturnsEnclosedText ==
    ex.pc = "returned" =>
        /\ ~Contains(ex.input, WrapperMarker) => ex.output = ex.input
        /\ MarkersPresent(ex.input) => ex.output = Enclosed(ex.input)

\* C18 as amended: the input is returned unchanged unless it has the
\* wrapper marker, an opening marker and a last closing marker with at
\* least one character between them; then the text between them is
\* returned with every \' replaced by '.
C18_ReturnsUnescapedEnclosedText ==
    ex.pc = "returned" =>
        IF MarkersPresent(ex.input) /\ Enclosed(ex.input) # <<>>
        THEN ex.output = StripEscapes(Enclosed(ex.input))
        ELSE ex.output = ex.input

\* C18 witness: the enclosed text holds an escaped quote and a closing
\* marker of its own, and comes back unescaped up to the last closing marker
C18_Witness ==
    /\ ex.pc = "returned"
    /\ ex.input = SingleQuoted(<<"\\", "'", ")">>)
    /\ ex.output = <<"'", ")">>

\* a request-level operation that was entered while the service was
\* serving, the manager initialized, is awaiting an agent
RequestInAgent ==
    /\ rq.called
    /\ rq.called_at = "serving"
    /\ rq.init_at_call
    /\ rq.pc \in {"classify", "entry_process", "entry_chat",
                  "specialist_process"}

\* C19: while a request-level operation is in progress on an agent, the
\* registry is neither being connected by initialize nor being closed by
\* shutdown, and it has not been closed by shutdown.
C19_NoRequestWhileRegistryChanges ==
    RequestInAgent =>
        /\ lc_pc \notin {"init_aenter", "shutdown_aexit"}
        /\ ~(lc_pc = "exited" /\ ~mcp_connected)

\* the tool has handed its argument mapping to call_tool
ToolCalled == tl.calls # <<>>
LastCall == tl.calls[Len(tl.calls)]

\* the name under which call_tool receives the caller's argument k
CallKey(tool, k) ==
    IF tool = "search_github_repos" /\ k = "limit" THEN "per_page" ELSE k

\* C20: every value the caller supplied reaches call_tool with the same
\* value.
C20_ArgumentsPassedUnmodified ==
    ToolCalled =>
        \A k \in DOMAIN tl.args :
            LastCall.args[CallKey(tl.tool, k)] = tl.args[k]

\* the story type get_stories receives for the caller's story type
Translated(story_type) ==
    IF story_type \in {"top", "TOP"} THEN "topstories"
    ELSE IF story_type = "new" THEN "newstories"
    ELSE IF story_type = "best" THEN "beststories"
    ELSE story_type

\* what call_tool receives for the arguments the caller left out
OmittedArgs(tool) ==
    CASE tool = "search_brave" ->
            [freshness |-> "pm", count |-> BRAVE_WEB_SEARCH_LIMIT]
      [] tool = "get_hacker_news_stories" ->
            [story_type |-> "topstories", limit |-> 10]
      [] tool = "search_github_repos" -> [sort |-> "stars", per_page |-> 10]
      [] OTHER -> EmptyDict

\* C20 as amended: every value the caller supplied reaches call_tool with
\* the same value, except the story type of get_hacker_news_stories, which
\* arrives translated (top/new/best to topstories/newstories/beststories);
\* every other value call_tool receives is the default of an argument the
\* caller left out or the configured result count of search_brave.
C20_ArgumentsPassedOrTranslated ==
    ToolCalled =>
        /\ \A k \in DOMAIN tl.args :
              LastCall.args[CallKey(tl.tool, k)] =
                  IF tl.tool = "get_hacker_news_stories" /\ k = "story_type"
                  THEN Translated(tl.args[k])
                  ELSE tl.args[k]
        /\ \A c \in DOMAIN LastCall.args
                      \ {CallKey(tl.tool, k) : k \in DOMAIN tl.args} :
              /\ c \in DOMAIN OmittedArgs(tl.tool)
              /\ LastCall.args[c] = OmittedArgs(tl.tool)[c]

\* C20 witness: a story type outside the table and a limit were supplied
\* and both reached get_stories as given
C20_Witness ==
    /\ ToolCalled
    /\ tl.tool = "get_hacker_news_stories"
    /\ tl.args = [story_type |-> "ask", limit |-> 5]
    /\ LastCall.args = [story_type |-> "ask", limit |-> 5]

\* C21: a registry that initialize has connected is closed by the time
\* the lifecycle has ended: when initialize has failed after the connect
\* and its fault has propagated, and when shutdown has ended, also after
\* a fault of stop_server (a fault of the close itself is left aside).
C21_OpenedRegistryIsClosed ==
    /\ (lc_pc = "startup_failed" /\ "connect" \in init_steps) =>
          ~mcp_connected
    /\ (lc_pc = "exited" /\ shutdown_fault # "aexit") => ~mcp_connected

\* C22: a message delivered to an initialized manager with a message_type
\* other than the repository-analysis delegation never runs the
\* specialist's delegation handler and is answered with an error mapping.
C22_OnlyRepoAnalysisDispatched ==
    (rq.op = "a2a" /\ rq.init_at_call /\ rq.message_type # "repo_analysis") =>
        /\ ~rq.handler_ran
        /\ rq.pc = "done" => "error" \in DOMAIN rq.result

\* C23: every response process_request returns has total_repos equal to
\* the length of repositories, which is at most 10; as long as no
\* repository has been resolved the summarising model call is not made,
\* and the response then carries the text "No repositories could be
\* analyzed." as insights.
C23_CountMatchesAndNoReposMessage ==
    /\ sp.resolved = <<>> => sp.summary_calls = 0
    /\ sp.pc = "returned" =>
          /\ sp.response.total_repos = Len(sp.response.repositories)
          /\ Len(sp.response.repositories) <= 10
          /\ sp.resolved = <<>> =>
                sp.response.insights = "No repositories could be analyzed."

\* C23 witness: more than ten identifiers were requested, all well-formed,
\* and the response holds ten records
C23_Witness ==
    /\ sp.pc = "returned"
    /\ Len(sp.repositories) > 10
    /\ Len(sp.response.repositories) = 10
    /\ sp.response.total_repos = 10

====
